---- MODULE Spec2Model ----
(***************************************************************************)
(* A model of porespy's SNOW filter stack (porespy/filters/__funcs__.py):  *)
(* find_peaks, trim_saddle_points, trim_nearby_peaks and the               *)
(* snow_partitioning orchestration, on 2-D distance fields.                *)
(*                                                                         *)
(* Images.  An image of shape <<H, W>> has the voxels (1..H) \X (1..W)     *)
(* (numpy's index plus one on each axis).  A boolean image is the set of   *)
(* its True voxels; a scalar or label image is a function on the voxels.   *)
(*                                                                         *)
(* Distance values.  A distance field is stored as the SQUARE of each      *)
(* voxel's value, so that the Euclidean distance transform (square roots   *)
(* of integers) and every integer-valued field are exact.  The code uses   *)
(* the field only through ==, <, max and the comparison of a Euclidean     *)
(* distance between two voxels with a field value; x |-> x*x is strictly   *)
(* increasing on the non-negative numbers, so each of these is computed    *)
(* on the squares unchanged.  The one arithmetic use, dt + 2*(~im) in      *)
(* find_peaks, adds 2 only where dt is 0 and becomes the square of 2.      *)
(***************************************************************************)
EXTENDS Integers, Sequences, FiniteSets, TLC

(***************************************************************************)
(* Bounds of the model and constants of the program.                       *)
(***************************************************************************)
\* r_max is drawn from 1..MaxR
MaxR == 2
\* max_iters is drawn from 0..MaxIters
MaxIters == 2
\* caller-supplied Peak Sets hold at most MaxVoxels true voxels
MaxVoxels == 3
\* trim_saddle_points: extend_slice(..., pad=10)
PAD == 10
\* find_peaks: dt + 2*(~im)
SolidPenalty == 2

(***************************************************************************)
(* The state: one distance field, the Peak Set as the stages hand it on,   *)
(* and the locals of a running trim_saddle_points call.                    *)
(***************************************************************************)
VARIABLES
    shape,      \* the shape of dt and of the Peak Set
    dt,         \* the distance field (squared values)
    peaks,      \* the Peak Set held by the caller
    src,        \* "caller": peaks was supplied; "none": not computed yet
    pc,         \* "idle", or the position inside trim_saddle_points
    log,        \* the finished stage calls: [stage, arg, before, after]
    raised,     \* the exception that ended the last call, or "none"
    max_iters,  \* trim_saddle_points: its argument
    work,       \* trim_saddle_points: its local copy of peaks
    clusters,   \* trim_saddle_points: labels, as the sequence of clusters
    i,          \* trim_saddle_points: the for loop's index plus one
    iters,      \* trim_saddle_points: iters
    peaks_i,    \* trim_saddle_points: peaks_i (False is the empty set)
    peaks_dil,  \* trim_saddle_points: peaks_dil
    verdicts,   \* per finished cluster: how its while loop ended
    warned,     \* per finished cluster: whether the warning was printed
    held,       \* what the caller's arrays held when the last trim was called
    args,       \* snow_partitioning: its arguments, [im, dt, sigma, randomize]
    im,         \* snow_partitioning: im
    tup,        \* snow_partitioning: tup.im, tup.dt, tup.peaks, tup.regions
    regions,    \* snow_partitioning: regions
    out,        \* snow_partitioning: how the call ended
    spc,        \* snow_partitioning: the stage to run next, "off" outside it
    call,       \* a filter called on its own: [fn, its arguments]
    ret         \* how that call ended: [kind, val, error]

tspLocals == <<max_iters, work, clusters, i, iters, peaks_i, peaks_dil,
               verdicts, warned>>

tspVars == <<tspLocals, held>>

snowVars == <<args, im, tup, regions, out, spc>>

fnVars == <<call, ret>>

vars == <<shape, dt, peaks, src, pc, log, raised, tspVars, snowVars, fnVars>>

Sq(x) == x * x

Max2(a, b) == IF a >= b THEN a ELSE b

Min2(a, b) == IF a <= b THEN a ELSE b

Abs(x) == IF x < 0 THEN -x ELSE x

SetMax(S) == CHOOSE x \in S : \A y \in S : y <= x

SetMin(S) == CHOOSE x \in S : \A y \in S : x <= y

RECURSIVE SumOver(_, _)
SumOver(S, k) ==
    IF S = {} THEN 0
    ELSE LET a == CHOOSE x \in S : TRUE IN a[k] + SumOver(S \ {a}, k)

(***************************************************************************)
(* Arrays and their index sets.                                            *)
(***************************************************************************)
Cells(sh) == (1..sh[1]) \X (1..sh[2])

\* the index set of an array of 1, 2 or 3 axes
CellsN(sh) ==
    CASE Len(sh) = 1 -> {<<a>> : a \in 1..sh[1]}
      [] Len(sh) = 2 -> Cells(sh)
      [] Len(sh) = 3 -> (1..sh[1]) \X (1..sh[2]) \X (1..sh[3])

\* C (row-major) order of the voxels, the order numpy and scipy scan in
Before(a, b) == a[1] < b[1] \/ (a[1] = b[1] /\ a[2] < b[2])

First(S) == CHOOSE a \in S : \A b \in S : a = b \/ Before(a, b)

\* squared Euclidean distance between two voxels
Dist2(a, b) == Sq(a[1] - b[1]) + Sq(a[2] - b[2])

\* a slice pair as its inclusive index ranges
SliceCells(s) == (s.r1..s.r2) \X (s.c1..s.c2)

(***************************************************************************)
(* scipy.ndimage and skimage primitives, as the stages call them.          *)
(***************************************************************************)
\* two voxels are neighbours under the structuring element: the default
\* of spim.label is the cross (faces only), square(3) adds the diagonals
Adj(a, b, full) ==
    /\ a # b
    /\ Abs(a[1] - b[1]) <= 1
    /\ Abs(a[2] - b[2]) <= 1
    /\ (full \/ Abs(a[1] - b[1]) + Abs(a[2] - b[2]) = 1)

RECURSIVE Grow(_, _, _)
Grow(S, C, full) ==
    LET N == {b \in S \ C : \E a \in C : Adj(a, b, full)}
    IN IF N = {} THEN C ELSE Grow(S, C \cup N, full)

\* spim.label: the connected components of S, numbered in scan order of
\* their first voxel; component k is element k of the sequence
RECURSIVE label(_, _)
label(S, full) ==
    IF S = {} THEN <<>>
    ELSE LET C == Grow(S, {First(S)}, full)
         IN <<C>> \o label(S \ C, full)

\* spim.find_objects, for one label: the bounding slice of its voxels
find_objects(C) ==
    [r1 |-> SetMin({c[1] : c \in C}), r2 |-> SetMax({c[1] : c \in C}),
     c1 |-> SetMin({c[2] : c \in C}), c2 |-> SetMax({c[2] : c \in C})]

\* porespy.tools.extend_slice: the slice grown by pad on every side and
\* clipped to the array
extend_slice(s, sh, pad) ==
    [r1 |-> Max2(s.r1 - pad, 1), r2 |-> Min2(s.r2 + pad, sh[1]),
     c1 |-> Max2(s.c1 - pad, 1), c2 |-> Min2(s.c2 + pad, sh[2])]

\* spim.binary_dilation(input=X, structure=square(3)) on the sub-array s:
\* one iteration, nothing enters from outside the sub-array
binary_dilation(X, s) ==
    {u \in SliceCells(s) :
        \E x \in X : Abs(u[1] - x[1]) <= 1 /\ Abs(u[2] - x[2]) <= 1}

\* skimage.morphology.disk(r), as offsets from its centre
disk(r) == {d \in (-r..r) \X (-r..r) : Sq(d[1]) + Sq(d[2]) <= Sq(r)}

\* the voxels of the array that the footprint fp, centred on c, covers.
\* maximum_filter's default boundary mode reflects the array; a reflected
\* offset is no longer than the offset itself on either axis, so for a
\* disk the reflected voxels are voxels the disk already covers.
Footprint(c, sh, fp) ==
    {u \in CellsN(sh) : [k \in 1..Len(sh) |-> u[k] - c[k]] \in fp}

\* spim.maximum_filter(f, footprint=fp)
maximum_filter(f, sh, fp) ==
    [c \in CellsN(sh) |-> SetMax({f[u] : u \in Footprint(c, sh, fp)})]

\* spim.measurements.center_of_mass of one label followed by astype(int):
\* the mean index, truncated
center_of_mass(C) ==
    <<SumOver(C, 1) \div Cardinality(C), SumOver(C, 2) \div Cardinality(C)>>

(***************************************************************************)
(* find_peaks                                                              *)
(***************************************************************************)
\* im = dt > 0
Void(d, sh) == {c \in CellsN(sh) : d[c] > 0}

\* a changed Perturbed: the penalty is taken one larger
Perturbed_big(d, sh) ==
    [c \in CellsN(sh) |-> IF d[c] > 0 THEN d[c] ELSE Sq(SolidPenalty + 1)]

\* a changed Perturbed: no penalty is added
Perturbed_none(d, sh) == d

\* dt + 2*(~im): a solid voxel holds 0, so it becomes 2 (stored squared);
\* a void voxel keeps its value
Perturbed(d, sh) ==
    [c \in CellsN(sh) |-> IF d[c] > 0 THEN d[c] ELSE Sq(SolidPenalty)]

\* skimage.morphology.ball(r), as offsets from its centre
ball(r) ==
    {d \in (-r..r) \X (-r..r) \X (-r..r) :
        Sq(d[1]) + Sq(d[2]) + Sq(d[3]) <= Sq(r)}

\* mx = maximum_filter(dt + 2*(~im), footprint=fp); peaks = (dt == mx)*im
PeaksUnder(d, sh, fp) ==
    LET mx == maximum_filter(Perturbed(d, sh), sh, fp)
    IN {c \in Void(d, sh) : d[c] = mx[c]}

\* find_peaks on an array of two axes, no footprint given: footprint = disk
find_peaks(d, sh, r_max) == PeaksUnder(d, sh, disk(r_max))

(***************************************************************************)
(* trim_saddle_points: the pieces of one pass of its while loop            *)
(***************************************************************************)
\* sp.amax(dt_i*peaks_dil): the product is 0 off the dilated set
AMax(dil, d, s) ==
    SetMax({0} \cup {d[u] : u \in dil \cap SliceCells(s)})

\* peaks_max = peaks_dil*amax; peaks_extended = (peaks_max == dt_i)*im_i.
\* Off the dilated set peaks_max is 0, which equals dt_i only on solid
\* voxels, and im_i removes those.
PeaksExtended(dil, d, s) ==
    {u \in dil : d[u] = AMax(dil, d, s) /\ d[u] > 0}

\* a changed LoopGuard: one pass too many
LoopGuard_le(n, mi) == n <= mi

\* while iters < max_iters
LoopGuard(n, mi) == n < mi

\* a changed IsTruePeak: the candidates are compared with the dilated set
IsTruePeak_dil(ext, p_i) == ext = peaks_dil

\* sp.all(peaks_extended == peaks_i)
IsTruePeak(ext, p_i) == ext = p_i

\* sp.sum(peaks_extended*peaks_i) == 0
IsSaddle(ext, p_i) == ext \cap p_i = {}

\* a changed WriteSlice: the dilated set is written back
WriteSlice_dil(arr, s, p_i) == (arr \ SliceCells(s)) \cup peaks_dil

\* peaks[s] = peaks_i: the whole sub-array s is overwritten
WriteSlice(arr, s, p_i) == (arr \ SliceCells(s)) \cup p_i

(***************************************************************************)
(* trim_nearby_peaks                                                       *)
(***************************************************************************)
\* crds: the truncated centre of mass of every label
Crds(cl) == [k \in 1..Len(cl) |-> center_of_mass(cl[k])]

\* tree.query(x=crds, k=2)[1][:, 1]: the second entry of each point's
\* neighbours sorted by distance.  The first is the point itself unless
\* another centre coincides with it, in which case the order of the
\* coincident points is the tree's; among equally near neighbours the
\* choice is the tree's too.  With a single point there is no second
\* neighbour and the tree reports index n (here N+1) at distance inf.
NNChoices(crds, p) ==
    LET N == Len(crds)
        same == {q \in 1..N : crds[q] = crds[p]}
        others == (1..N) \ {p}
        dmin == SetMin({Dist2(crds[p], crds[q]) : q \in others})
    IN IF N = 1 THEN {N + 1}
       ELSE IF same # {p} THEN same
       ELSE {q \in others : Dist2(crds[p], crds[q]) = dmin}

\* hits = where(dist_to_neighbor < dist_to_solid)
Hits(crds, nn, d) ==
    {p \in 1..Len(crds) :
        nn[p] <= Len(crds) /\ Dist2(crds[p], crds[nn[p]]) < d[crds[p]]}

\* the for loop over hits, then sp.unique
DropPeaks(crds, nn, d) ==
    {IF d[crds[p]] < d[crds[nn[p]]] THEN p ELSE nn[p] : p \in Hits(crds, nn, d)}

\* for s in drop_peaks: peaks[slices[s]] = 0; return peaks > 0
ZeroSlices(P, cl, drop) ==
    P \ UNION {SliceCells(find_objects(cl[k])) : k \in drop}

trim_nearby_peaks(P, d, nn) ==
    LET cl == label(P, TRUE)
    IN ZeroSlices(P, cl, DropPeaks(Crds(cl), nn, d))

(***************************************************************************)
(* Arrays of any rank up to 3, for snow_partitioning's arguments.  An      *)
(* array is a record [shape, val]; None is the array of shape <<>>.        *)
(***************************************************************************)
\* squared Euclidean distance between two indices of one rank
SqDist(a, b) ==
    Sq(a[1] - b[1])
    + (IF Len(a) >= 2 THEN Sq(a[2] - b[2]) ELSE 0)
    + (IF Len(a) >= 3 THEN Sq(a[3] - b[3]) ELSE 0)

\* im.squeeze(): the axes of length 1 are dropped, from a shape (x = sh)
\* and from an index x alike
RECURSIVE squeeze(_, _)
squeeze(x, sh) ==
    IF sh = <<>> THEN <<>>
    ELSE (IF Head(sh) = 1 THEN <<>> ELSE <<Head(x)>>)
         \o squeeze(Tail(x), Tail(sh))

\* numpy.atleast_1d, which distance_transform_edt applies to its input
atleast_1d(x) == IF x = <<>> THEN <<1>> ELSE x

\* sp.expand_dims(dt, ax): an axis of length 1 enters before position ax
\* (counted from 1 here)
expand_dims(x, ax) == SubSeq(x, 1, ax - 1) \o <<1>> \o SubSeq(x, ax, Len(x))

\* the index of the expanded array without its coordinate on axis ax
RemoveAt(x, ax) == SubSeq(x, 1, ax - 1) \o SubSeq(x, ax + 1, Len(x))

\* ax = sp.where(im_shape == 1)[0][0]
FirstSingleton(sh) == SetMin({k \in 1..Len(sh) : sh[k] = 1})

\* spim.distance_transform_edt of the boolean image V (its True voxels):
\* the distance of each void voxel to the nearest solid voxel, 0 on solid.
\* V is a proper subset of the voxels.
distance_transform_edt(V, sh) ==
    [c \in CellsN(sh) |->
        IF c \in V THEN SetMin({SqDist(c, u) : u \in CellsN(sh) \ V}) ELSE 0]

(***************************************************************************)
(* The inputs.                                                             *)
(***************************************************************************)
\* the values a field takes next to the penalty: solid, below it, equal to
\* it, and (Levels only) above it
LowLevels == {0, 1, Sq(SolidPenalty)}

Levels == LowLevels \cup {Sq(SolidPenalty + 1)}

\* fields on one row
RowLen == 4

RowShape == <<1, RowLen>>

RowFields == [Cells(RowShape) -> Levels]

\* fields on a small rectangle
SmallShape == <<2, 3>>

SmallFields == [Cells(SmallShape) -> LowLevels]

\* images holding one rectangular void blob
BlobGrid == 5

BlobShape == <<BlobGrid, BlobGrid>>

Rect(r1, r2, c1, c2) == (r1..r2) \X (c1..c2)

BlobImages ==
    {Rect(r1, r2, c1, c2) :
        r1 \in 1..BlobGrid, r2 \in 1..BlobGrid,
        c1 \in 1..BlobGrid, c2 \in 1..BlobGrid} \ {{}, Cells(BlobShape)}

\* a wide image, wider than a padded bounding slice: a bar of void voxels
\* along the first row and one void voxel in the third row, all at the
\* same distance value, the rest solid
WideShape == <<3, 2 * PAD + 3>>

WideField(a, b, c, v) ==
    [u \in Cells(WideShape) |->
        IF (u[1] = 1 /\ u[2] \in a..b) \/ u = <<3, c>> THEN v ELSE 0]

WideFields ==
    {WideField(a, b, c, Sq(SolidPenalty)) :
        a \in 1..2, b \in (2 * PAD + 2)..(2 * PAD + 3),
        c \in (PAD + 1)..(PAD + 3)}

Inputs ==
    {[shape |-> RowShape, dt |-> f] : f \in RowFields}
    \cup {[shape |-> SmallShape, dt |-> f] : f \in SmallFields}
    \cup {[shape |-> BlobShape, dt |-> distance_transform_edt(V, BlobShape)] :
            V \in BlobImages}
    \cup {[shape |-> WideShape, dt |-> f] : f \in WideFields}


(***************************************************************************)
(* The stage calls.  A caller runs find_peaks on the field, then           *)
(* trim_saddle_points, then trim_nearby_peaks, each on the Peak Set the    *)
(* stage before it returned (snow_partitioning's order); it may skip a     *)
(* stage.  trim_saddle_points is followed through its loops.               *)
(***************************************************************************)
Stages == {log[k].stage : k \in 1..Len(log)}

Logged(name, arg, before, after) ==
    Append(log, [stage |-> name, arg |-> arg, before |-> before, after |-> after])

\* a Peak Set is at hand and no call has failed
CanTrim == pc = "idle" /\ raised = "none" /\ (src = "caller" \/ log # <<>>)

InitLocals ==
    /\ max_iters = 0
    /\ work = {}
    /\ clusters = <<>>
    /\ i = 1
    /\ iters = 0
    /\ peaks_i = {}
    /\ peaks_dil = {}
    /\ verdicts = <<>>
    /\ warned = <<>>
    /\ held = [peaks |-> peaks, dt |-> dt]

\* an array is a record [shape, val]; None is the array of shape <<>>
Arr(sh, f) == [shape |-> sh, val |-> f]

None == Arr(<<>>, <<>>)

EmptyTup == [im |-> None, dt |-> None, peaks |-> None, regions |-> None]

NoOut == [kind |-> "none", all |-> FALSE, error |-> "none"]

\* outside snow_partitioning
\* no filter is being called on its own
NoCall == [fn |-> "none"]

NoRet == [kind |-> "none", val |-> None, error |-> "none"]

FnOff == call = NoCall /\ ret = NoRet

SnowOff ==
    /\ args = [im |-> None, dt |-> None, sigma |-> 0, randomize |-> FALSE]
    /\ im = None
    /\ tup = EmptyTup
    /\ regions = None
    /\ out = NoOut
    /\ spc = "off"

\* peaks = find_peaks(dt=dt, r_max=r_max)
FindPeaks ==
    \E r \in 1..MaxR :
        /\ pc = "idle" /\ src = "none" /\ log = <<>>
        /\ peaks' = find_peaks(dt, shape, r)
        /\ log' = Logged("find_peaks", r, {}, peaks')
        /\ UNCHANGED <<fnVars, snowVars, shape, dt, src, pc, raised, tspVars>>

\* An array is owned by the "caller" or is "local" to the running stage.
\* sp.copy gives a new array, local to the stage, with the same values.
sp_copy_alias(owner) == owner

sp_copy(owner) == "local"

\* the array the name peaks of trim_saddle_points is bound to from line 301
\* on: peaks = sp.copy(peaks)
TSP_Peaks == sp_copy("caller")

\* trim_saddle_points, up to the for loop: peaks = sp.copy(peaks);
\* labels, N = spim.label(peaks); slices = spim.find_objects(labels)
TSP_Call ==
    \E mi \in 0..MaxIters :
        /\ CanTrim
        /\ Stages \cap {"trim_saddle_points", "trim_nearby_peaks"} = {}
        /\ max_iters' = mi
        /\ work' = peaks
        /\ clusters' = label(peaks, FALSE)
        /\ i' = 1
        /\ verdicts' = <<>>
        /\ warned' = <<>>
        /\ held' = [peaks |-> peaks, dt |-> dt]
        /\ pc' = "for"
        /\ UNCHANGED <<fnVars, snowVars, shape, dt, peaks, src, log, raised, iters, peaks_i, peaks_dil>>

\* a changed CurSlice: the bounding slice is not extended
CurSlice_tight == find_objects(clusters[i])

\* s = extend_slice(s=slices[i], shape=peaks.shape, pad=10)
CurSlice == extend_slice(find_objects(clusters[i]), shape, PAD)

\* the head of the for body: peaks_i = labels[s] == i+1; iters = 0;
\* peaks_dil = sp.copy(peaks_i)
TSP_Cluster ==
    /\ pc = "for" /\ i <= Len(clusters)
    /\ peaks_i' = clusters[i] \cap SliceCells(CurSlice)
    /\ iters' = 0
    /\ peaks_dil' = peaks_i'
    /\ pc' = "while"
    /\ UNCHANGED <<fnVars, snowVars, shape, dt, peaks, src, log, raised, max_iters, work,
                   clusters, i, verdicts, warned, held>>

\* one pass of the while body
TSP_Iter ==
    /\ pc = "while" /\ LoopGuard(iters, max_iters)
    /\ iters' = iters + 1
    /\ peaks_dil' = binary_dilation(peaks_dil, CurSlice)
    /\ LET ext == PeaksExtended(peaks_dil', dt, CurSlice)
       IN IF IsTruePeak(ext, peaks_i)
          THEN pc' = "break_peak" /\ peaks_i' = peaks_i
          ELSE IF IsSaddle(ext, peaks_i)
          THEN pc' = "break_saddle" /\ peaks_i' = {}
          ELSE pc' = "while" /\ peaks_i' = peaks_i
    /\ UNCHANGED <<fnVars, snowVars, shape, dt, peaks, src, log, raised, max_iters, work,
                   clusters, i, verdicts, warned, held>>

\* the while condition fails
TSP_Exhaust ==
    /\ pc = "while" /\ ~LoopGuard(iters, max_iters)
    /\ pc' = "exhausted"
    /\ UNCHANGED <<fnVars, snowVars, shape, dt, peaks, src, log, raised, tspVars>>

\* after the loop: peaks[s] = peaks_i, written in place into the array the
\* name peaks is bound to; if iters >= max_iters: print(...)
TSP_Write ==
    /\ pc \in {"break_peak", "break_saddle", "exhausted"}
    /\ IF TSP_Peaks = "caller"
       THEN peaks' = WriteSlice(peaks, CurSlice, peaks_i) /\ work' = peaks'
       ELSE work' = WriteSlice(work, CurSlice, peaks_i) /\ UNCHANGED peaks
    /\ warned' = Append(warned, iters >= max_iters)
    /\ verdicts' = Append(verdicts, pc)
    /\ i' = i + 1
    /\ pc' = "for"
    /\ UNCHANGED <<fnVars, snowVars, shape, dt, src, log, raised, max_iters, clusters,
                   iters, peaks_i, peaks_dil, held>>

\* return peaks
TSP_Return ==
    /\ pc = "for" /\ i > Len(clusters)
    /\ peaks' = work
    /\ log' = Logged("trim_saddle_points", max_iters, peaks, work)
    /\ pc' = "idle"
    /\ UNCHANGED <<fnVars, snowVars, shape, dt, src, raised, tspVars>>

\* the choices tree.query leaves open, one neighbour per centre
NNFuns(crds) ==
    {f \in [1..Len(crds) -> 1..(Len(crds) + 1)] :
        \A p \in 1..Len(crds) : f[p] \in NNChoices(crds, p)}

\* peaks = trim_nearby_peaks(peaks=peaks, dt=dt), with at least one label
TNP_Call ==
    /\ CanTrim
    /\ "trim_nearby_peaks" \notin Stages
    /\ peaks # {}
    /\ \E nn \in NNFuns(Crds(label(peaks, TRUE))) :
          /\ peaks' = trim_nearby_peaks(peaks, dt, nn)
          /\ log' = Logged("trim_nearby_peaks", nn, peaks, peaks')
    /\ held' = [peaks |-> peaks, dt |-> dt]
    /\ UNCHANGED <<fnVars, snowVars, shape, dt, src, pc, raised, tspLocals>>

\* with no label center_of_mass returns an empty list and sp.vstack raises
\* ValueError (need at least one array to concatenate)
TNP_Raise ==
    /\ CanTrim
    /\ "trim_nearby_peaks" \notin Stages
    /\ peaks = {}
    /\ raised' = "ValueError"
    /\ UNCHANGED <<fnVars, snowVars, shape, dt, peaks, src, pc, log, tspVars>>

TSP_Step == TSP_Cluster \/ TSP_Iter \/ TSP_Exhaust \/ TSP_Write \/ TSP_Return

Init ==
    /\ \E inp \in Inputs : shape = inp.shape /\ dt = inp.dt
    /\ peaks = {}
    /\ src = "none"
    /\ pc = "idle"
    /\ log = <<>>
    /\ raised = "none"
    /\ InitLocals
    /\ FnOff
    /\ SnowOff

Next ==
    \/ FindPeaks
    \/ TSP_Call
    \/ TSP_Step
    \/ TNP_Call
    \/ TNP_Raise

\* a pipeline on every input field
Spec == Init /\ [][Next]_vars


(***************************************************************************)
(* Direct calls of the two trimming stages on a Peak Set the caller made.  *)
(***************************************************************************)
\* any Peak Set of at most MaxVoxels voxels
PeakSets(sh) == {P \in SUBSET Cells(sh) : Cardinality(P) <= MaxVoxels}

\* one row just long enough to hold the largest Peak Set
DirectRowShape == <<1, MaxVoxels>>

DirectInputs ==
    {[shape |-> DirectRowShape, dt |-> f, peaks |-> P] :
        f \in [Cells(DirectRowShape) -> LowLevels],
        P \in SUBSET Cells(DirectRowShape)}
    \cup {[shape |-> SmallShape, dt |-> f, peaks |-> P] :
            f \in [Cells(SmallShape) -> {1, Sq(SolidPenalty)}],
            P \in PeakSets(SmallShape)}

InitDirect ==
    /\ \E inp \in DirectInputs :
          shape = inp.shape /\ dt = inp.dt /\ peaks = inp.peaks
    /\ src = "caller"
    /\ pc = "idle"
    /\ log = <<>>
    /\ raised = "none"
    /\ InitLocals
    /\ FnOff
    /\ SnowOff

NextDirect ==
    \/ TSP_Call
    \/ TSP_Step
    \/ TNP_Call
    \/ TNP_Raise

SpecDirect == InitDirect /\ [][NextDirect]_vars

\* trim_nearby_peaks reads dt at the cluster centres only: Peak Sets on a
\* 3 x 3 image, any listed value on each peak voxel, 1 elsewhere.  The
\* values 9, 16, 25 exceed every squared separation on the image.
SparseShape == <<3, 3>>

SparseLevels == (LowLevels \ {0}) \cup {Sq(k) : k \in 3..5}

SparseField(P, g) == [c \in Cells(SparseShape) |-> IF c \in P THEN g[c] ELSE 1]

InitNearby ==
    /\ \E P \in PeakSets(SparseShape) :
          \E g \in [P -> SparseLevels] :
              dt = SparseField(P, g) /\ peaks = P
    /\ shape = SparseShape
    /\ src = "caller"
    /\ pc = "idle"
    /\ log = <<>>
    /\ raised = "none"
    /\ InitLocals
    /\ FnOff
    /\ SnowOff

NextNearby ==
    \/ TNP_Call
    \/ TNP_Raise

SpecNearby == InitNearby /\ [][NextNearby]_vars

(***************************************************************************)
(* snow_partitioning: the primitives of its stages.                        *)
(***************************************************************************)
\* dt = spim.distance_transform_edt(...), lines 151-156: through squeeze
\* and expand_dims when some axis has length 1.  An image without a solid
\* voxel has no nearest solid voxel: the values scipy returns for it are
\* left open (any listed value on each voxel).
EdtFields(V, sh) ==
    IF V = CellsN(sh) THEN [CellsN(sh) -> {0, 1, Sq(SolidPenalty)}]
    ELSE {distance_transform_edt(V, sh)}

EdtOutcomes(a) ==
    IF \E k \in 1..Len(a.shape) : a.shape[k] = 1
    THEN LET ax == FirstSingleton(a.shape)
             ssh == atleast_1d(squeeze(a.shape, a.shape))
             V == {atleast_1d(squeeze(c, a.shape)) : c \in a.val}
             esh == expand_dims(ssh, ax)
         IN {Arr(esh, [c \in CellsN(esh) |-> f[RemoveAt(c, ax)]]) :
                f \in EdtFields(V, ssh)}
    ELSE {Arr(a.shape, f) : f \in EdtFields(a.val, a.shape)}

\* sigma, in sixteenths: 0, and a value below 1/8.  Larger values mix
\* neighbouring values into fractions that the fields here cannot hold.
Sigmas16 == {0, 1}

\* the radius of scipy's kernel, int(truncate * sigma + 0.5) with
\* truncate = 4.0
KernelRadius(s16) == (4 * s16 + 8) \div 16

\* spim.gaussian_filter(input=dt, sigma=sigma) for a kernel of radius 0:
\* the kernel is the single weight 1.0, and every voxel of the new array
\* is 1.0 times the voxel of the input
gaussian_filter(d, sh) == [c \in Cells(sh) |-> 1 * d[c]]

\* the while loop of trim_saddle_points for one cluster, from pass n on.
\* Once a pass leaves the dilated set as it was, every later pass repeats
\* it, and the loop runs out with peaks_i as it is.
RECURSIVE TSPLoop(_, _, _, _, _, _)
TSPLoop(p_i, dil, n, mi, d, s) ==
    IF ~LoopGuard(n, mi) THEN p_i
    ELSE LET dil2 == binary_dilation(dil, s)
             ext == PeaksExtended(dil2, d, s)
         IN IF IsTruePeak(ext, p_i) THEN p_i
            ELSE IF IsSaddle(ext, p_i) THEN {}
            ELSE IF dil2 = dil THEN p_i
            ELSE TSPLoop(p_i, dil2, n + 1, mi, d, s)

\* the for loop of trim_saddle_points from cluster k on
RECURSIVE TSPClusters(_, _, _, _, _, _)
TSPClusters(arr, cl, k, d, sh, mi) ==
    IF k > Len(cl) THEN arr
    ELSE LET s == extend_slice(find_objects(cl[k]), sh, PAD)
             p_i == cl[k] \cap SliceCells(s)
         IN TSPClusters(WriteSlice(arr, s, TSPLoop(p_i, p_i, 0, mi, d, s)),
                        cl, k + 1, d, sh, mi)

\* trim_saddle_points(peaks=P, dt=d, max_iters=mi) as one call
trim_saddle_points(P, d, sh, mi) ==
    TSPClusters(P, label(P, FALSE), 1, d, sh, mi)

\* peaks, N = spim.label(peaks), as the labelled array
Labelled(P, sh) ==
    LET cl == label(P, FALSE)
    IN [c \in Cells(sh) |->
           IF c \in P THEN CHOOSE k \in 1..Len(cl) : c \in cl[k] ELSE 0]

\* the neighbours skimage's watershed visits from voxel c (connectivity 1),
\* in the order of their offsets in the raveled array
FaceNbrs(c, sh) ==
    SelectSeq(<< <<c[1] - 1, c[2]>>, <<c[1], c[2] - 1>>,
                 <<c[1], c[2] + 1>>, <<c[1] + 1, c[2]>> >>,
              LAMBDA u : u \in Cells(sh))

\* the inner loop of the flood: every neighbour of the popped element e
\* that lies in the mask and has no label yet takes e's label and enters
\* the heap with the next age
RECURSIVE PushNbrs(_, _, _, _, _, _, _)
PushNbrs(lab, heap, age, nbrs, e, img, msk) ==
    IF nbrs = <<>> THEN [lab |-> lab, heap |-> heap, age |-> age]
    ELSE LET u == Head(nbrs)
         IN IF u \notin msk \/ lab[u] # 0
            THEN PushNbrs(lab, heap, age, Tail(nbrs), e, img, msk)
            ELSE PushNbrs([lab EXCEPT ![u] = lab[e.index]],
                          heap \cup {[value |-> img[u], age |-> age + 1,
                                      index |-> u]},
                          age + 1, Tail(nbrs), e, img, msk)

\* the flood: the heap yields the element of least value, the oldest among
\* equals.  The markers all enter with age 0; which of several markers of
\* one value leaves the heap first is left open.
RECURSIVE Flood(_, _, _, _, _, _)
Flood(lab, heap, age, img, msk, sh) ==
    IF heap = {} THEN {lab}
    ELSE LET least == {e \in heap : \A f \in heap :
                          \/ e.value < f.value
                          \/ (e.value = f.value /\ e.age <= f.age)}
         IN UNION {LET st == PushNbrs(lab, heap \ {e}, age,
                                      FaceNbrs(e.index, sh), e, img, msk)
                   IN Flood(st.lab, st.heap, st.age, img, msk, sh) :
                       e \in least}

\* skimage's watershed(image=-dt, markers=mk, mask=msk), msk being the set
\* of voxels open to the flood.  Releases of skimage differ on markers that
\* lie outside the mask: some multiply the markers by the mask first
\* (masked), the others leave them in the output and flood from them.
watershed(d, sh, mk, msk, masked) ==
    LET img == [c \in Cells(sh) |-> 0 - d[c]]
        m0 == [c \in Cells(sh) |->
                  IF masked /\ c \notin msk THEN 0 ELSE mk[c]]
        heap0 == {[value |-> img[c], age |-> 0, index |-> c] :
                     c \in {u \in Cells(sh) : m0[u] # 0}}
    IN Flood(m0, heap0, 0, img, msk, sh)

\* both releases, where they can differ
WatershedOutcomes(d, sh, mk, msk) ==
    UNION {watershed(d, sh, mk, msk, masked) :
              masked \in IF \E c \in Cells(sh) \ msk : mk[c] # 0
                         THEN BOOLEAN ELSE {TRUE}}

\* porespy.tools.randomize_colors: the non-zero labels are mapped onto a
\* permutation of themselves, 0 stays 0
randomize_colors(r, sh) ==
    LET L == {r[c] : c \in Cells(sh)} \ {0}
    IN {[c \in Cells(sh) |-> IF r[c] = 0 THEN 0 ELSE p[r[c]]] :
           p \in {q \in [L -> L] : \A a, b \in L : q[a] = q[b] => a = b}}

(***************************************************************************)
(* snow_partitioning, stage by stage.  sigma and randomize are held in     *)
(* args; r_max, mask and return_all are drawn where the code first reads   *)
(* them.  Every stage that runs is entered in log.                         *)
(***************************************************************************)
\* trim_saddle_points(peaks=peaks, dt=dt, max_iters=500)
SnowMaxIters == 500

\* lines 145-148: im_shape = sp.array(im.shape); im = im > 0
Snow_Coerce ==
    /\ spc = "call"
    /\ im' = Arr(args.im.shape,
                 {c \in CellsN(args.im.shape) : args.im.val[c] > 0})
    /\ log' = Logged("boolean_coercion", 0, {}, {})
    /\ spc' = "edt"
    /\ UNCHANGED <<fnVars, shape, dt, peaks, src, pc, raised, tspVars,
                   args, tup, regions, out>>

\* lines 149-159: the distance transform when dt is None, then
\* tup.im = im; tup.dt = dt
Snow_DistanceTransform ==
    /\ spc = "edt"
    /\ \/ /\ shape = <<>>
          /\ \E a \in EdtOutcomes(im) : shape' = a.shape /\ dt' = a.val
          /\ log' = Logged("distance_transform", 0, {}, {})
       \/ /\ shape # <<>>
          /\ UNCHANGED <<fnVars, shape, dt, log>>
    /\ tup' = [tup EXCEPT !.im = im, !.dt = Arr(shape', dt')]
    /\ spc' = "smooth"
    /\ UNCHANGED <<fnVars, peaks, src, pc, raised, tspVars, args, im, regions, out>>

\* a changed Snow_Smooth: the filter runs for sigma = 0 as well
Snow_Smooth_ge ==
    /\ spc = "smooth"
    /\ \/ /\ args.sigma >= 0 /\ KernelRadius(args.sigma) = 0
          /\ dt' = gaussian_filter(dt, shape)
          /\ log' = Logged("gaussian_filter", args.sigma, {}, {})
       \/ /\ ~(args.sigma >= 0)
          /\ UNCHANGED <<dt, log>>
    /\ spc' = "peaks"
    /\ UNCHANGED <<fnVars, shape, peaks, src, pc, raised, tspVars,
                   args, im, tup, regions, out>>

\* lines 161-163: if sigma > 0: dt = spim.gaussian_filter(input=dt, ...)
Snow_Smooth ==
    /\ spc = "smooth"
    /\ \/ /\ args.sigma > 0 /\ KernelRadius(args.sigma) = 0
          /\ dt' = gaussian_filter(dt, shape)
          /\ log' = Logged("gaussian_filter", args.sigma, {}, {})
       \/ /\ ~(args.sigma > 0)
          /\ UNCHANGED <<dt, log>>
    /\ spc' = "peaks"
    /\ UNCHANGED <<fnVars, shape, peaks, src, pc, raised, tspVars,
                   args, im, tup, regions, out>>

\* line 165: peaks = find_peaks(dt=dt, r_max=r_max); dt has two axes here
Snow_FindPeaks ==
    /\ spc = "peaks"
    /\ \E r \in 1..MaxR :
          /\ peaks' = find_peaks(dt, shape, r)
          /\ log' = Logged("find_peaks", r, {}, peaks')
    /\ spc' = "saddle"
    /\ UNCHANGED <<fnVars, shape, dt, src, pc, raised, tspVars,
                   args, im, tup, regions, out>>

\* line 167: peaks = trim_saddle_points(peaks=peaks, dt=dt, max_iters=500)
Snow_TrimSaddle ==
    /\ spc = "saddle"
    /\ peaks' = trim_saddle_points(peaks, dt, shape, SnowMaxIters)
    /\ log' = Logged("trim_saddle_points", SnowMaxIters, peaks, peaks')
    /\ spc' = "nearby"
    /\ UNCHANGED <<fnVars, shape, dt, src, pc, raised, tspVars,
                   args, im, tup, regions, out>>

\* line 169: peaks = trim_nearby_peaks(peaks=peaks, dt=dt)
Snow_TrimNearby ==
    /\ spc = "nearby"
    /\ peaks # {}
    /\ \E nn \in NNFuns(Crds(label(peaks, TRUE))) :
          /\ peaks' = trim_nearby_peaks(peaks, dt, nn)
          /\ log' = Logged("trim_nearby_peaks", nn, peaks, peaks')
    /\ spc' = "label"
    /\ UNCHANGED <<fnVars, shape, dt, src, pc, raised, tspVars,
                   args, im, tup, regions, out>>

\* a changed Snow_TrimNearbyRaise: the empty Peak Set is returned
Snow_TrimNearbyRaise_empty ==
    /\ spc = "nearby"
    /\ peaks = {}
    /\ log' = Logged("trim_nearby_peaks", <<>>, peaks, peaks)
    /\ spc' = "label"
    /\ UNCHANGED <<fnVars, shape, dt, peaks, src, pc, raised, out, tspVars,
                   args, im, tup, regions>>

\* line 169, no peak left: sp.vstack raises ValueError inside the call
Snow_TrimNearbyRaise ==
    /\ spc = "nearby"
    /\ peaks = {}
    /\ raised' = "ValueError"
    /\ out' = [NoOut EXCEPT !.kind = "raised", !.error = "ValueError"]
    /\ spc' = "done"
    /\ UNCHANGED <<fnVars, shape, dt, peaks, src, pc, log, tspVars,
                   args, im, tup, regions>>

\* lines 170-171: peaks, N = spim.label(peaks); tup.peaks = peaks
Snow_Label ==
    /\ spc = "label"
    /\ tup' = [tup EXCEPT !.peaks = Arr(shape, Labelled(peaks, shape))]
    /\ log' = Logged("label", 0, {}, {})
    /\ spc' = "watershed"
    /\ UNCHANGED <<fnVars, shape, dt, peaks, src, pc, raised, tspVars,
                   args, im, regions, out>>

\* a changed mask_solid: the solid voxels are left open to the flood
mask_solid_inverted(a, sh, mask) ==
    IF mask THEN CellsN(a.shape) \ a.val ELSE Cells(sh)

\* lines 172-175: mask_solid = im > 0 if mask, else None (no voxel of the
\* image is closed to the flood)
mask_solid(a, sh, mask) == IF mask THEN a.val ELSE Cells(sh)

\* lines 172-177: mask_solid = ...;
\* regions = watershed(image=-dt, markers=peaks, mask=mask_solid).
\* skimage raises ValueError when the mask's shape is not the image's.
Snow_Watershed ==
    /\ spc = "watershed"
    /\ \E mask \in BOOLEAN :
          \/ /\ mask /\ im.shape # shape
             /\ raised' = "ValueError"
             /\ out' = [NoOut EXCEPT !.kind = "raised", !.error = "ValueError"]
             /\ spc' = "done"
             /\ UNCHANGED <<regions, log>>
          \/ /\ mask => im.shape = shape
             /\ \E r \in WatershedOutcomes(dt, shape, tup.peaks.val,
                                           mask_solid(im, shape, mask)) :
                   regions' = Arr(shape, r)
             /\ log' = Logged("watershed", mask, {}, {})
             /\ spc' = "randomize"
             /\ UNCHANGED <<raised, out>>
    /\ UNCHANGED <<fnVars, shape, dt, peaks, src, pc, tspVars, args, im, tup>>

\* lines 178-179: if randomize: regions = randomize_colors(regions)
Snow_Randomize ==
    /\ spc = "randomize"
    /\ \/ /\ args.randomize
          /\ \E r \in randomize_colors(regions.val, shape) :
                regions' = Arr(shape, r)
          /\ log' = Logged("randomize_colors", 0, {}, {})
       \/ /\ ~args.randomize
          /\ UNCHANGED <<regions, log>>
    /\ spc' = "return"
    /\ UNCHANGED <<fnVars, shape, dt, peaks, src, pc, raised, tspVars,
                   args, im, tup, out>>

\* lines 180-184: tup.regions = regions; return tup, or return regions
Snow_Return ==
    /\ spc = "return"
    /\ \E return_all \in BOOLEAN :
          /\ tup' = IF return_all THEN [tup EXCEPT !.regions = regions] ELSE tup
          /\ out' = [NoOut EXCEPT !.kind = "returned", !.all = return_all]
    /\ spc' = "done"
    /\ UNCHANGED <<fnVars, shape, dt, peaks, src, pc, log, raised, tspVars,
                   args, im, regions>>

\* the images given as im: every 0/1 image of these shapes, one of them
\* with three axes of which two have length 1
SnowShapes == {<<1, 4>>, <<3, 1>>, <<2, 2>>, <<1, 1, 3>>}

SnowImages ==
    UNION {{Arr(sh, f) : f \in [CellsN(sh) -> {0, 1}]} : sh \in SnowShapes}

\* the fields given as dt: the distance transform of any image with a
\* solid voxel, of any of the shapes with two axes (the shape of im or not)
CallerFields ==
    UNION {{Arr(sh, distance_transform_edt(V, sh)) :
                V \in (SUBSET CellsN(sh)) \ {CellsN(sh)}} :
              sh \in {s \in SnowShapes : Len(s) = 2}}

InitSnow ==
    /\ \E b \in {None} \cup CallerFields : \E a \in SnowImages :
       \E s16 \in Sigmas16 : \E rnd \in BOOLEAN :
          /\ args = [im |-> a, dt |-> b, sigma |-> s16, randomize |-> rnd]
          /\ im = a
          /\ shape = b.shape
          /\ dt = b.val
    /\ peaks = {}
    /\ src = "none"
    /\ pc = "idle"
    /\ log = <<>>
    /\ raised = "none"
    /\ InitLocals
    /\ FnOff
    /\ tup = EmptyTup
    /\ regions = None
    /\ out = NoOut
    /\ spc = "call"

NextSnow ==
    \/ Snow_Coerce
    \/ Snow_DistanceTransform
    \/ Snow_Smooth
    \/ Snow_FindPeaks
    \/ Snow_TrimSaddle
    \/ Snow_TrimNearby
    \/ Snow_TrimNearbyRaise
    \/ Snow_Label
    \/ Snow_Watershed
    \/ Snow_Randomize
    \/ Snow_Return

\* one call of snow_partitioning on every image and dt
SpecSnow == InitSnow /\ [][NextSnow]_vars

(***************************************************************************)
(* Properties.                                                             *)
(***************************************************************************)
\* the finished calls of one stage
Calls(name) == {k \in 1..Len(log) : log[k].stage = name}

\* the number spim.label reports (default structuring element)
NumLabels(P) == Len(label(P, FALSE))

\* every pairwise centre distance is less than each cluster's
\* distance-to-solid
MutuallyClose(crds, d) ==
    \A p, q \in 1..Len(crds) :
        p # q => Dist2(crds[p], crds[q]) < d[crds[p]]

\* exactly one cluster of cl is left, one with the largest distance-to-solid
OnlyLargestLeft(after, cl, d) ==
    \E m \in 1..Len(cl) :
        /\ after = cl[m]
        /\ \A q \in 1..Len(cl) :
              d[center_of_mass(cl[q])] <= d[center_of_mass(cl[m])]

\* C1: trim_nearby_peaks, called once on three clusters that are mutually
\* closer to one another than to the solid, leaves exactly one cluster, the
\* one with the largest distance-to-solid.
C1_TripletOneSurvivor ==
    \A k \in Calls("trim_nearby_peaks") :
        LET cl == label(log[k].before, TRUE)
        IN (Len(cl) = 3 /\ MutuallyClose(Crds(cl), dt))
              => OnlyLargestLeft(log[k].after, cl, dt)

\* C2: trim_nearby_peaks, called on exactly two clusters whose centre
\* distance is less than each one's distance-to-solid, leaves exactly one
\* cluster, the one with the larger distance-to-solid.
C2_PairOneSurvivor ==
    \A k \in Calls("trim_nearby_peaks") :
        LET cl == label(log[k].before, TRUE)
        IN (Len(cl) = 2 /\ MutuallyClose(Crds(cl), dt))
              => OnlyLargestLeft(log[k].after, cl, dt)

\* the voxels of one row or one column from a to b, ends included
Segment(a, b) ==
    {u \in (Min2(a[1], b[1])..Max2(a[1], b[1])) \X (Min2(a[2], b[2])..Max2(a[2], b[2])) :
        a[1] = b[1] \/ a[2] = b[2]}

\* P is two true peaks a and b joined by a straight strip of ridge voxels
\* that all hold one distance value, lower than either peak's
IsRidge(P, a, b, d) ==
    /\ a # b /\ (a[1] = b[1] \/ a[2] = b[2])
    /\ P = Segment(a, b)
    /\ Cardinality(P) >= 3
    /\ \A u, w \in P \ {a, b} :
          d[u] = d[w] /\ d[u] > 0 /\ d[u] < d[a] /\ d[u] < d[b]

\* C3: trim_saddle_points (run with at least one iteration allowed), given
\* two true peak voxels joined by a linear strip of equal-distance ridge
\* voxels, returns exactly the two peak voxels.
C3_RidgeRemoved ==
    \A k \in Calls("trim_saddle_points") :
        \A a, b \in log[k].before :
            (log[k].arg >= 1 /\ IsRidge(log[k].before, a, b, dt))
                => log[k].after = {a, b}

\* C4: along find_peaks -> trim_saddle_points -> trim_nearby_peaks every
\* stage completes, and no trimming stage returns a Peak Set with more
\* connected components than it was given.
C4_CountNonIncreasing ==
    /\ raised = "none"
    /\ \A k \in Calls("trim_saddle_points") \cup Calls("trim_nearby_peaks") :
          NumLabels(log[k].after) <= NumLabels(log[k].before)

\* C5: the Peak Set only shrinks: every voxel that trim_saddle_points or
\* trim_nearby_peaks returns as true was true in the Peak Set it was given,
\* and the result is an image of the input's shape.
C5_OnlyShrinks ==
    \A k \in Calls("trim_saddle_points") \cup Calls("trim_nearby_peaks") :
        /\ log[k].after \subseteq log[k].before
        /\ log[k].after \subseteq Cells(shape)

\* trim_saddle_points removed some voxels and kept others, and
\* trim_nearby_peaks has returned after it
C5_Witness ==
    \E j \in Calls("trim_saddle_points") :
        \E k \in Calls("trim_nearby_peaks") :
            /\ log[j].after # log[j].before
            /\ log[j].after # {}
            /\ log[k].after # {}

\* the voxels holding the largest value of the field
Top(d, sh) == {c \in Cells(sh) : \A u \in Cells(sh) : d[u] <= d[c]}

\* V is one rectangular blob that touches no face of the image
IsolatedBlob(V, sh) ==
    \E r1, r2 \in 2..(sh[1] - 1) : \E c1, c2 \in 2..(sh[2] - 1) :
        V # {} /\ V = Rect(r1, r2, c1, c2)

\* the voxel at the geometric centre of a rectangular blob, if there is one
Centre(V) ==
    {p \in V : /\ 2 * p[1] = SetMin({c[1] : c \in V}) + SetMax({c[1] : c \in V})
               /\ 2 * p[2] = SetMin({c[2] : c \in V}) + SetMax({c[2] : c \in V})}

VoidLocalMax(v, d, sh, r) ==
    \A u \in Footprint(v, sh, disk(r)) : d[u] <= d[v]

\* a solid voxel lies within the footprint of v
SolidInFootprint(v, d, sh, r) ==
    \E u \in Footprint(v, sh, disk(r)) : d[u] = 0

Variant ==
    LET perCluster == max_iters + 3
        used == CASE pc = "for" -> 0
                  [] pc = "while" -> 1 + iters
                  [] OTHER -> max_iters + 2
    IN IF pc = "idle" THEN 0
       ELSE (Len(clusters) + 1 - i) * perCluster + 1 - used

\* C10: trim_saddle_points always terminates: the while loop of a cluster
\* makes at most max_iters passes, for every input and every max_iters >= 0,
\* after which the call moves on to the next cluster and finally returns
\* (a running call can always take a step, and every step lowers a
\* non-negative count of the steps left).
C10_Terminates ==
    /\ [](iters <= max_iters)
    /\ [](pc # "idle" => ENABLED TSP_Step)
    /\ [](Variant >= 0)
    /\ [][TSP_Step => Variant' < Variant]_vars

\* a call that returned after a loop ran out of iterations on one cluster
\* and resolved another
C10_Witness ==
    /\ pc = "idle" /\ Calls("trim_saddle_points") # {}
    /\ max_iters >= 1
    /\ \E a, b \in 1..Len(verdicts) :
          verdicts[a] = "exhausted" /\ verdicts[b] # "exhausted"
\* the arguments snow_partitioning read, from the entries of the stages
\* that read them
MaskGiven == \E k \in Calls("watershed") : log[k].arg

\* the void voxels of the coerced image
VoidOf(a) == a.val

\* the void voxels from which face-adjacent void voxels lead to c
VoidComponent(c) == Grow(VoidOf(im), {c}, FALSE)

\* C8 as stated: when snow_partitioning, called with mask=True, returns,
\* every voxel of the region image with label 0 is a solid voxel: every
\* void voxel has a non-zero label.
C8_ZeroOnlyOnSolid ==
    (out.kind = "returned" /\ MaskGiven)
        => \A c \in Cells(shape) :
              regions.val[c] = 0 => c \notin VoidOf(im)

\* C8 as amended: when snow_partitioning, called with mask=True, returns,
\* label 0 occurs only on solid voxels and on void voxels that no marker
\* lying in the void reaches through face-adjacent void voxels.
C8_ZeroOnlyWhereUnreached ==
    (out.kind = "returned" /\ MaskGiven)
        => \A c \in VoidOf(im) :
              regions.val[c] = 0
                 => \A u \in VoidComponent(c) : tup.peaks.val[u] = 0

\* a returned masked call whose region image labels one void voxel and
\* leaves another void voxel, which no marker reaches, at 0
C8_Witness ==
    /\ out.kind = "returned" /\ MaskGiven
    /\ \E c, u \in VoidOf(im) :
          /\ regions.val[c] = 0
          /\ regions.val[u] # 0
          /\ \E m \in VoidComponent(u) : tup.peaks.val[m] # 0

\* C9: when snow_partitioning, called with return_all=True, returns, the
\* bundle holds the four fields im, dt, peaks and regions, each an array of
\* the shape of the image the caller gave.
C9_FourFieldsOfInputShape ==
    (out.kind = "returned" /\ out.all)
        => \A f \in {"im", "dt", "peaks", "regions"} :
              tup[f].shape # <<>> /\ tup[f].shape = args.im.shape

\* C11: trim_saddle_points prints the max-iterations warning for a cluster
\* if and only if the while loop of that cluster ran out of iterations
\* without resolving it as a true peak or a saddle; a cluster resolved on
\* any pass, the last allowed one included, gives no warning.
C11_WarnIffUnresolved ==
    \A k \in 1..Len(verdicts) :
        warned[k] <=> verdicts[k] = "exhausted"

\* the trims that have returned and are the last stage to have run
LastTrim ==
    {k \in Calls("trim_saddle_points") \cup Calls("trim_nearby_peaks") :
        k = Len(log)}

pipeVars == <<shape, dt, peaks, src, pc, log, raised, tspVars, snowVars>>

PipeOff ==
    /\ shape = <<>>
    /\ dt = <<>>
    /\ peaks = {}
    /\ src = "none"
    /\ pc = "idle"
    /\ log = <<>>
    /\ raised = "none"
    /\ InitLocals
    /\ SnowOff

Returned(v) == [kind |-> "returned", val |-> v, error |-> "none"]

Raised(e) == [kind |-> "raised", val |-> None, error |-> e]

(***************************************************************************)
(* distance_transform_lin.  An axis is numbered from 0, as in numpy.       *)
(***************************************************************************)
\* 1-D images have 1..LinLen voxels
LinLen == 4

\* the voxel at position k of the line through c along axis ax
Along(c, ax, k) == [c EXCEPT ![ax + 1] = k]

\* sp.flip(im, axis)
flip(a, ax) ==
    Arr(a.shape,
        [c \in CellsN(a.shape) |->
            a.val[Along(c, ax, a.shape[ax + 1] + 1 - c[ax + 1])]])

\* b = sp.cumsum(im > 0, axis=axis)
lin_b(a, ax) ==
    [c \in CellsN(a.shape) |->
        Cardinality({k \in 1..c[ax + 1] : a.val[Along(c, ax, k)] > 0})]

\* c = sp.diff(b*(im == 0), axis=axis): one entry fewer along the axis
lin_c(a, ax) ==
    LET b == lin_b(a, ax)
        bz == [c \in CellsN(a.shape) |-> IF a.val[c] = 0 THEN b[c] ELSE 0]
    IN [c \in {u \in CellsN(a.shape) : u[ax + 1] < a.shape[ax + 1]} |->
           bz[Along(c, ax, c[ax + 1] + 1)] - bz[c]]

\* a changed lin_d: the minimum is not accumulated
lin_d_plain(a, ax) == lin_c(a, ax)

\* d = sp.minimum.accumulate(c, axis=axis)
lin_d(a, ax) ==
    LET c_ == lin_c(a, ax)
    IN [c \in DOMAIN c_ |->
           SetMin({c_[Along(c, ax, j)] : j \in 1..c[ax + 1]})]

\* a changed lin_e: the zero is padded at the trailing edge
lin_e_trailing(a, ax) ==
    LET d == lin_d(a, ax)
    IN [c \in CellsN(a.shape) |->
           IF c[ax + 1] = a.shape[ax + 1] THEN 0 ELSE d[c]]

\* e = sp.pad(d, pad_width=..., constant_values=0): one zero before the
\* first entry along the axis, for 1, 2 and 3 dimensions
lin_e(a, ax) ==
    LET d == lin_d(a, ax)
    IN [c \in CellsN(a.shape) |->
           IF c[ax + 1] = 1 THEN 0 ELSE d[Along(c, ax, c[ax + 1] - 1)]]

\* the else branch: f = im*(b + e)
lin_forward(a, ax) ==
    LET b == lin_b(a, ax)
        e == lin_e(a, ax)
    IN Arr(a.shape, [c \in CellsN(a.shape) |-> a.val[c] * (b[c] + e[c])])

\* a changed minimum: the larger of the two
minimum_larger(x, y) ==
    Arr(x.shape, [c \in CellsN(x.shape) |-> Max2(x.val[c], y.val[c])])

\* sp.minimum(im_f, im_b)
minimum(x, y) ==
    Arr(x.shape, [c \in CellsN(x.shape) |-> Min2(x.val[c], y.val[c])])

\* the recursive calls pass 'forward' and 'backward' only, so the
\* recursion is unfolded
distance_transform_lin(a, ax, mode) ==
    LET back == flip(lin_forward(flip(a, ax), ax), ax)
    IN IF mode \in {"backward", "reverse"} THEN back
       ELSE IF mode \in {"both"} THEN minimum(lin_forward(a, ax), back)
       ELSE lin_forward(a, ax)

\* the modes the docstring lists, and one it does not
LinModes == {"forward", "reverse", "backward", "both", "nearest"}

\* an array from the sequence of its values
Arr1(seq) == Arr(<<Len(seq)>>, [c \in CellsN(<<Len(seq)>>) |-> seq[c[1]]])

\* the 1-D image of the specification's example
LinExample == Arr1(<<0, 1, 1, 1, 0, 1, 1, 0>>)

LinShape2 == <<2, 3>>

\* boolean images (True is 1): every 1-D image of up to LinLen voxels and
\* the example
LinImages ==
    UNION {{Arr(<<n>>, f) : f \in [CellsN(<<n>>) -> {0, 1}]} : n \in 1..LinLen}
        \cup {LinExample}

\* every 2 x 3 boolean image
LinImages2 == {Arr(LinShape2, f) : f \in [CellsN(LinShape2) -> {0, 1}]}

DTL_Call ==
    /\ call.fn = "distance_transform_lin" /\ ret.kind = "none"
    /\ ret' = Returned(distance_transform_lin(call.im, call.axis, call.mode))
    /\ UNCHANGED <<call, pipeVars>>

InitLin ==
    /\ \E m \in LinModes :
          \/ \E a \in LinImages :
                call = [fn |-> "distance_transform_lin", im |-> a,
                        axis |-> 0, mode |-> m]
          \/ \E a \in LinImages2, ax \in {0, 1} :
                call = [fn |-> "distance_transform_lin", im |-> a,
                        axis |-> ax, mode |-> m]
    /\ ret = NoRet
    /\ PipeOff

NextLin == DTL_Call

\* distance_transform_lin on every image, axis and mode
SpecLin == InitLin /\ [][NextLin]_vars

\* a returned distance_transform_lin call with one of the given modes
LinReturned(modes) ==
    /\ call.fn = "distance_transform_lin"
    /\ call.mode \in modes
    /\ ret.kind = "returned"

\* the void voxels of the run of c that lie at or before c along the axis
RunBehind(a, ax, c) ==
    Cardinality({k \in 1..c[ax + 1] :
                    \A j \in k..c[ax + 1] : a.val[Along(c, ax, j)] > 0})

\* the void voxels of the run of c that lie at or after c along the axis
RunAhead(a, ax, c) ==
    Cardinality({k \in c[ax + 1]..a.shape[ax + 1] :
                    \A j \in c[ax + 1]..k : a.val[Along(c, ax, j)] > 0})

\* C13 as stated: in forward mode every void voxel gets the count of
\* contiguous void voxels from that voxel up to, but not including, the
\* next solid voxel in the increasing direction of the axis; solid voxels
\* get 0.
C13_CountToNextSolid ==
    LinReturned({"forward"})
        => \A c \in CellsN(call.im.shape) :
              ret.val.val[c] = RunAhead(call.im, call.axis, c)

\* C13 as amended: in forward mode every void voxel gets the count of
\* contiguous void voxels from the preceding solid voxel (not included), or
\* from the start of the axis, up to and including that voxel; solid voxels
\* get 0.
C13_CountFromLastSolid ==
    LinReturned({"forward"})
        => \A c \in CellsN(call.im.shape) :
              ret.val.val[c] = RunBehind(call.im, call.axis, c)

\* a forward call along axis 1 of a 2-D image has returned; one row holds
\* a run of two void voxels that ends at a solid voxel
C13_Witness ==
    /\ LinReturned({"forward"})
    /\ call.im.shape = LinShape2 /\ call.axis = 1
    /\ \E r \in 1..LinShape2[1] :
          /\ call.im.val[<<r, 1>>] = 1 /\ call.im.val[<<r, 2>>] = 1
          /\ call.im.val[<<r, 3>>] = 0
          /\ ret.val.val[<<r, 2>>] = 2

\* C14: in forward mode on a 1-D image the result holds 0 on a solid voxel
\* and, on a void voxel, one more than the result on the voxel before it
\* (1 on the first voxel): the 1-based position of the voxel in its run,
\* whatever the number of runs and of consecutive solid voxels; for
\* [0,1,1,1,0,1,1,0] the result is [0,1,2,3,0,1,2,0].
C14_PositionInRun ==
    (LinReturned({"forward"}) /\ Len(call.im.shape) = 1)
        => /\ \A k \in 1..call.im.shape[1] :
                 ret.val.val[<<k>>] =
                    IF call.im.val[<<k>>] = 0 THEN 0
                    ELSE IF k = 1 THEN 1
                    ELSE ret.val.val[<<k - 1>>] + 1
           /\ call.im = LinExample
                 => ret.val = Arr1(<<0, 1, 2, 3, 0, 1, 2, 0>>)

\* the forward call on the example has returned
C14_Witness ==
    /\ LinReturned({"forward"})
    /\ call.im = LinExample

\* C15 as stated: in mode 'both' every void voxel gets the smaller of its
\* distances to the run's boundary in the two directions, and for
\* [0,1,1,1,0,1,1,0] the result is [0,1,1,1,0,1,1,0].
C15_BothExampleAllOnes ==
    LinReturned({"both"})
        => /\ \A c \in CellsN(call.im.shape) :
                 ret.val.val[c] = Min2(RunBehind(call.im, call.axis, c),
                                       RunAhead(call.im, call.axis, c))
           /\ call.im = LinExample
                 => ret.val = Arr1(<<0, 1, 1, 1, 0, 1, 1, 0>>)

\* C15 as amended: in mode 'both' every void voxel gets the smaller of its
\* distances to the run's boundary in the two directions, and for
\* [0,1,1,1,0,1,1,0] the result is [0,1,2,1,0,1,1,0].
C15_BothIsMinimum ==
    LinReturned({"both"})
        => /\ \A c \in CellsN(call.im.shape) :
                 ret.val.val[c] = Min2(RunBehind(call.im, call.axis, c),
                                       RunAhead(call.im, call.axis, c))
           /\ call.im = LinExample
                 => ret.val = Arr1(<<0, 1, 2, 1, 0, 1, 1, 0>>)

\* the call in mode 'both' on the example has returned
C15_Witness ==
    /\ LinReturned({"both"})
    /\ call.im = LinExample
    /\ ret.val.val[<<3>>] = 2

(***************************************************************************)
(* trim_extrema, on greyscale images with values 0..GreyMax.               *)
(***************************************************************************)
GreyMax == 2

\* skimage reconstruction checks its seed first: no seed value above the
\* mask for dilation, none below it for erosion, or it raises ValueError
SeedOk(seed, mask, sh, method) ==
    \A c \in Cells(sh) :
        IF method = "dilation" THEN seed[c] <= mask[c] ELSE seed[c] >= mask[c]

\* the voxels under the default structuring element (3 x 3, all ones)
\* centred on c; the padding skimage adds never wins a maximum or minimum
Nbhd(c, sh) ==
    {u \in Cells(sh) : Abs(u[1] - c[1]) <= 1 /\ Abs(u[2] - c[2]) <= 1}

\* skimage.morphology.reconstruction(seed, mask, method): the seed is
\* dilated under the mask (eroded above it) until it no longer changes
RECURSIVE reconstruction(_, _, _, _)
reconstruction(seed, mask, sh, method) ==
    LET step == [c \in Cells(sh) |->
                    IF method = "dilation"
                    THEN Min2(SetMax({seed[u] : u \in Nbhd(c, sh)}), mask[c])
                    ELSE Max2(SetMin({seed[u] : u \in Nbhd(c, sh)}), mask[c])]
    IN IF step = seed THEN seed ELSE reconstruction(step, mask, sh, method)

\* the if / elif on mode: the reconstruction that is run, if any
TE_Method(mode) ==
    IF mode \in {"maxima", "extrema"} THEN "dilation"
    ELSE IF mode \in {"minima", "extrema"} THEN "erosion"
    ELSE "none"

\* seed=im - h for dilation, seed=im + h for erosion
TE_Seed(a, h, method) ==
    [c \in Cells(a.shape) |->
        IF method = "dilation" THEN a.val[c] - h ELSE a.val[c] + h]

\* the modes the docstring lists, and one it does not
ExtremaModes == {"maxima", "minima", "extrema", "both"}

ExtremaShapes == {<<1, 4>>, <<2, 2>>}

ExtremaImages ==
    UNION {{Arr(sh, f) : f \in [Cells(sh) -> 0..GreyMax]} : sh \in ExtremaShapes}

\* result = im, then at most one reconstruction; each reconstruction that
\* ran is entered in log with its method, its seed and its result
TE_Call ==
    /\ call.fn = "trim_extrema" /\ ret.kind = "none"
    /\ LET a == call.im
           m == TE_Method(call.mode)
           seed == TE_Seed(a, call.h, m)
       IN IF m = "none"
          THEN ret' = Returned(a) /\ UNCHANGED log
          ELSE IF ~SeedOk(seed, a.val, a.shape, m)
          THEN ret' = Raised("ValueError") /\ UNCHANGED log
          ELSE LET r == reconstruction(seed, a.val, a.shape, m)
               IN /\ ret' = Returned(Arr(a.shape, r))
                  /\ log' = Logged("reconstruction", m, seed, r)
    /\ UNCHANGED <<call, shape, dt, peaks, src, pc, raised, tspVars, snowVars>>

InitExtrema ==
    /\ \E a \in ExtremaImages, h \in -1..GreyMax, m \in ExtremaModes :
          call = [fn |-> "trim_extrema", im |-> a, h |-> h, mode |-> m]
    /\ ret = NoRet
    /\ PipeOff

NextExtrema == TE_Call

\* trim_extrema on every image, height and mode
SpecExtrema == InitExtrema /\ [][NextExtrema]_vars

\* the reconstruction methods a returned trim_extrema call has run
MethodsRun == {log[k].arg : k \in Calls("reconstruction")}

\* C20: trim_extrema with mode 'extrema' runs both the maxima reduction
\* (reconstruction by dilation from im - h) and the minima filling
\* (reconstruction by erosion from im + h); 'maxima' runs only the first
\* and 'minima' only the second.
C20_ExtremaTrimsBoth ==
    (call.fn = "trim_extrema" /\ ret.kind = "returned")
        => /\ call.mode = "maxima" => MethodsRun = {"dilation"}
           /\ call.mode = "minima" => MethodsRun = {"erosion"}
           /\ call.mode = "extrema" => MethodsRun = {"dilation", "erosion"}
           /\ \A k \in Calls("reconstruction") :
                 log[k].before = TE_Seed(call.im, call.h, log[k].arg)

(***************************************************************************)
(* flood.  A mode is the sequence of its characters, since flood tests it  *)
(* with str.startswith.                                                    *)
(***************************************************************************)
\* mode.startswith(prefix)
startswith(mode, prefix) ==
    Len(mode) >= Len(prefix) /\ SubSeq(mode, 1, Len(prefix)) = prefix

\* the modes the docstring lists, one that only starts like a listed mode,
\* and one that does not
FloodModes ==
    {<<"m", "a", "x">>, <<"m", "i", "n">>, <<"s", "i", "z", "e">>,
     <<"m", "a", "x", "i", "m", "u", "m">>, <<"m", "e", "a", "n">>}

\* the branch of the if / elif chain that mode takes
FloodBranch(mode) ==
    IF startswith(mode, <<"m", "a", "x">>) THEN "max"
    ELSE IF startswith(mode, <<"m", "i", "n">>) THEN "min"
    ELSE IF startswith(mode, <<"s", "i", "z", "e">>) THEN "size"
    ELSE "none"

\* labels: spim.label(im > 0) when regions is None, else a copy of regions
FloodLabels(a, regs) ==
    IF regs = None
    THEN Labelled({c \in Cells(a.shape) : a.val[c] > 0}, a.shape)
    ELSE regs.val

\* V[l] after the loop over the flattened image, for a label l that occurs
FloodV(a, lab, branch, l) ==
    LET vals == {a.val[c] : c \in {u \in Cells(a.shape) : lab[u] = l}}
    IN CASE branch = "max" -> SetMax({0} \cup vals)
         [] branch = "min" -> SetMin(vals)
         [] branch = "size" ->
                Cardinality({u \in Cells(a.shape) : lab[u] = l})

\* im_flooded = V[labels] * mask
flood(a, regs, branch) ==
    LET lab == FloodLabels(a, regs)
    IN Arr(a.shape,
           [c \in Cells(a.shape) |->
               IF a.val[c] > 0 THEN FloodV(a, lab, branch, lab[c]) ELSE 0])

FloodRow == <<1, 3>>

FloodSquare == <<2, 2>>

\* with no branch taken V is never bound and V[labels] raises
\* UnboundLocalError
Flood_Call ==
    /\ call.fn = "flood" /\ ret.kind = "none"
    /\ LET branch == FloodBranch(call.mode)
       IN IF branch = "none"
          THEN ret' = Raised("UnboundLocalError")
          ELSE ret' = Returned(flood(call.im, call.regions, branch))
    /\ UNCHANGED <<call, pipeVars>>

\* images with values 0..GreyMax; regions is None or, on the row, any
\* array of labels
InitFlood ==
    /\ \E m \in FloodModes :
          \/ \E f \in [Cells(FloodRow) -> 0..GreyMax] :
                \E g \in {None} \cup {Arr(FloodRow, l) :
                                        l \in [Cells(FloodRow) -> 0..2]} :
                    call = [fn |-> "flood", im |-> Arr(FloodRow, f),
                            regions |-> g, mode |-> m]
          \/ \E f \in [Cells(FloodSquare) -> 0..GreyMax] :
                call = [fn |-> "flood", im |-> Arr(FloodSquare, f),
                        regions |-> None, mode |-> m]
    /\ ret = NoRet
    /\ PipeOff

\* the filters that take a string mode
InitModes == InitLin \/ InitExtrema \/ InitFlood

NextModes ==
    \/ DTL_Call
    \/ TE_Call
    \/ Flood_Call

SpecModes == InitModes /\ [][NextModes]_vars

\* the mode of the call is one that the operation documents
ModeListed ==
    CASE call.fn = "distance_transform_lin" ->
            call.mode \in {"forward", "reverse", "backward", "both"}
      [] call.fn = "trim_extrema" ->
            call.mode \in {"maxima", "minima", "extrema"}
      [] call.fn = "flood" ->
            call.mode \in {<<"m", "a", "x">>, <<"m", "i", "n">>,
                           <<"s", "i", "z", "e">>}

\* C16: distance_transform_lin, trim_extrema and flood, called with a mode
\* that is none of the variants the operation recognizes, raise an error
\* and return no result.
C16_UnknownModeRaises ==
    (ret.kind # "none" /\ ~ModeListed) => ret.kind = "raised"

\* the caller gave a distance field whose shape is not the shape of im
DtShapeMismatch == args.dt # None /\ args.dt.shape # args.im.shape

\* C17: whenever the distance field the caller gives has a shape other
\* than the shape of im, snow_partitioning ends by raising an error and
\* returns no region image, whatever mask, sigma and randomize are.
C17_MismatchRaises ==
    (DtShapeMismatch /\ spc = "done")
        => out.kind = "raised" /\ out.error # "none"

(***************************************************************************)
(* find_peaks called on its own, on distance fields of 1, 2 or 3 axes,     *)
(* with or without a footprint generator.                                  *)
(***************************************************************************)
\* a changed DefaultFootprint: every array that is not 3-D gets the disk
DefaultFootprint_disk(ndim) == IF ndim = 3 THEN "ball" ELSE "disk"

\* if footprint is None: disk for im.ndim == 2, ball for im.ndim == 3,
\* else raise Exception("only 2-d and 3-d images are supported")
DefaultFootprint(ndim) ==
    CASE ndim = 2 -> "disk"
      [] ndim = 3 -> "ball"
      [] OTHER -> "raise"

\* the generators a caller may pass: disk, ball, and for one axis
\* segment = lambda r: np.ones(2*r + 1)
Generators == {"disk", "ball", "segment"}

\* footprint(r_max): the array the generator returns, as offsets
FootprintOf(gen, r) ==
    CASE gen = "disk" -> disk(r)
      [] gen = "ball" -> ball(r)
      [] gen = "segment" -> {<<k>> : k \in -r..r}

\* the number of axes of the array the generator returns
FootprintRank(gen) ==
    CASE gen = "disk" -> 2
      [] gen = "ball" -> 3
      [] gen = "segment" -> 1

PeakShapes == {<<3>>, <<1, 3>>, <<2, 2>>, <<1, 1, 3>>, <<2, 1, 2>>}

\* each call of the generator is entered in log with its argument;
\* maximum_filter raises RuntimeError for a footprint whose number of axes
\* is not the array's
FP_Call ==
    /\ call.fn = "find_peaks" /\ ret.kind = "none"
    /\ LET d == call.dt
           gen == IF call.footprint = "None"
                  THEN DefaultFootprint(Len(d.shape))
                  ELSE call.footprint
       IN IF gen = "raise"
          THEN ret' = Raised("Exception") /\ UNCHANGED log
          ELSE /\ log' = Logged("footprint", call.r_max, gen, gen)
               /\ IF FootprintRank(gen) # Len(d.shape)
                  THEN ret' = Raised("RuntimeError")
                  ELSE ret' = Returned(
                          Arr(d.shape,
                              PeaksUnder(d.val, d.shape,
                                         FootprintOf(gen, call.r_max))))
    /\ UNCHANGED <<call, shape, dt, peaks, src, pc, raised, tspVars, snowVars>>

InitPeaks ==
    /\ \E sh \in PeakShapes :
          \E f \in [CellsN(sh) -> LowLevels], r \in 1..MaxR,
             fp \in {"None"} \cup Generators :
              call = [fn |-> "find_peaks", dt |-> Arr(sh, f), r_max |-> r,
                      footprint |-> fp]
    /\ ret = NoRet
    /\ PipeOff

NextPeaks == FP_Call

\* find_peaks on every field, r_max and footprint argument
SpecPeaks == InitPeaks /\ [][NextPeaks]_vars

Border(sh) ==
    {c \in Cells(sh) : c[1] \in {1, sh[1]} \/ c[2] \in {1, sh[2]}}

\* find_disconnected_voxels(im) with conn=None: the voxels of X whose
\* component under square(3) holds no voxel on the outer edge
\* (clear_border(labels) > 0)
find_disconnected_voxels(X, sh) ==
    LET cl == label(X, TRUE)
    IN UNION {cl[k] : k \in {j \in 1..Len(cl) : cl[j] \cap Border(sh) = {}}}

\* trim_floating_solid(im): im = sp.copy(im);
\* holes = find_disconnected_voxels(~im); im[holes] = True
trim_floating_solid(X, sh) ==
    X \cup find_disconnected_voxels(Cells(sh) \ X, sh)

\* inlet[0, :] = 1 or inlet[:, 0] = 1
Inlet(axis, sh) == {c \in Cells(sh) : c[axis + 1] = 1}

\* outlet[-1, :] = 1 or outlet[:, -1] = 1
Outlet(axis, sh) == {c \in Cells(sh) : c[axis + 1] = sh[axis + 1]}

\* sp.unique(labels*face)
LabelsOn(lab, face, sh) ==
    {IF c \in face THEN lab[c] ELSE 0 : c \in Cells(sh)}

\* the whole function: the set of True voxels of ~im at the return
trim_nonpercolating_paths(V, sh, inlet_axis, outlet_axis) ==
    LET solid == trim_floating_solid(Cells(sh) \ V, sh)
        labels == Labelled(Cells(sh) \ solid, sh)
        IN_ == LabelsOn(labels, Inlet(inlet_axis, sh), sh)
        OUT_ == LabelsOn(labels, Outlet(outlet_axis, sh), sh)
        sym == (IN_ \ OUT_) \cup (OUT_ \ IN_)
        new_im == {c \in Cells(sh) : labels[c] \notin sym}
    IN Cells(sh) \ (solid \cup (Cells(sh) \ new_im))

PathShapes == {<<3, 3>>, <<2, 4>>}

TNPP_Call ==
    /\ call.fn = "trim_nonpercolating_paths" /\ ret.kind = "none"
    /\ ret' = Returned(Arr(call.im.shape,
                           trim_nonpercolating_paths(call.im.val, call.im.shape,
                                                     call.inlet_axis,
                                                     call.outlet_axis)))
    /\ UNCHANGED <<call, pipeVars>>

InitPaths ==
    /\ \E sh \in PathShapes :
          \E V \in SUBSET Cells(sh), a, b \in {0, 1} :
              call = [fn |-> "trim_nonpercolating_paths", im |-> Arr(sh, V),
                      inlet_axis |-> a, outlet_axis |-> b]
    /\ ret = NoRet
    /\ PipeOff

NextPaths == TNPP_Call

\* trim_nonpercolating_paths on every image and pair of axes
SpecPaths == InitPaths /\ [][NextPaths]_vars

\* the void voxels of the input that face-adjacent void voxels join to c
PathRegion(c) == Grow(call.im.val, {c}, FALSE)

\* the region of c touches the inlet face and the outlet face
Percolates(c) ==
    /\ PathRegion(c) \cap Inlet(call.inlet_axis, call.im.shape) # {}
    /\ PathRegion(c) \cap Outlet(call.outlet_axis, call.im.shape) # {}

\* C19: the void voxels of the result of trim_nonpercolating_paths are
\* exactly the void voxels of the input whose connected void region touches
\* both the inlet face (the first face of inlet_axis) and the outlet face
\* (the last face of outlet_axis).
C19_OnlyPercolatingKept ==
    (call.fn = "trim_nonpercolating_paths" /\ ret.kind = "returned")
        => ret.val.val = {c \in call.im.val : Percolates(c)}

(***************************************************************************)
(* network_extraction.map_to_regions.  values is a function on             *)
(* 0..size-1, as numpy indexes it.                                         *)
(***************************************************************************)
\* values holds 0..MapLen entries
MapLen == 4

MapShape == <<1, 3>>

\* the largest region label of the inputs
MapLabels == 2

\* regions.max()
ArrMax(a) == SetMax({a.val[c] : c \in Cells(a.shape)})

\* values = sp.array(values).flatten(); the size test; im = values[regions]
map_to_regions(regs, values, size) ==
    IF size # ArrMax(regs) + 1
    THEN Raised("Exception")
    ELSE Returned(Arr(regs.shape,
                      [c \in Cells(regs.shape) |-> values[regs.val[c]]]))

MTR_Call ==
    /\ call.fn = "map_to_regions" /\ ret.kind = "none"
    /\ ret' = map_to_regions(call.regions, call.values, call.size)
    /\ UNCHANGED <<call, pipeVars>>

\* any label image of the shape and any array of up to MapLen pore values
InitMap ==
    /\ \E l \in [Cells(MapShape) -> 0..MapLabels], n \in 0..MapLen :
          \E v \in [0..(n - 1) -> {10, 20}] :
              call = [fn |-> "map_to_regions", regions |-> Arr(MapShape, l),
                      values |-> v, size |-> n]
    /\ ret = NoRet
    /\ PipeOff

NextMap == MTR_Call

\* map_to_regions on every label image and value array
SpecMap == InitMap /\ [][NextMap]_vars

\* the number K of regions of the label image of the call, when its labels
\* are exactly 0 (background) and 1..K
RegionCount == ArrMax(call.regions)

LabelsContiguous ==
    \A n \in 1..RegionCount :
        \E c \in Cells(call.regions.shape) : call.regions.val[c] = n

\* C21: map_to_regions, given a label image with K regions (labels 1..K,
\* 0 the background) and K pore values indexed from 0, returns, and the
\* image it returns holds values[n] at every voxel whose label is n+1.
C21_RegionGetsPoreValue ==
    (/\ call.fn = "map_to_regions" /\ ret.kind # "none"
     /\ LabelsContiguous /\ RegionCount >= 1
     /\ call.size = RegionCount)
        => /\ ret.kind = "returned"
           /\ \A c \in Cells(call.regions.shape) :
                 call.regions.val[c] >= 1
                    => ret.val.val[c] = call.values[call.regions.val[c] - 1]

\* C22: a cluster that the loop of trim_saddle_points resolves as a genuine
\* peak is present with all of its voxels in the returned Peak Set,
\* whatever other clusters the image holds and wherever they lie.
C22_TruePeakKept ==
    \A j \in Calls("trim_saddle_points") :
        \A k \in 1..Len(verdicts) :
            verdicts[k] = "break_peak" => clusters[k] \subseteq log[j].after

\* the clusters of the running or finished trim_saddle_points call that the
\* loop has dealt with and not dropped, and those it has not reached yet
ClustersLeft ==
    {k \in 1..Len(clusters) :
        k > Len(verdicts) \/ verdicts[k] # "break_saddle"}

\* C23: trim_saddle_points is local and independent of the order of the
\* clusters: handling one cluster writes that cluster's voxels only, so
\* between two clusters, and at the return, the output holds exactly the
\* voxels of the clusters not yet handled and of the handled clusters that
\* were not dropped as saddles.
C23_WritesOwnClusterOnly ==
    (pc = "for" /\ clusters # <<>>)
        => work = UNION {clusters[k] : k \in ClustersLeft}

(***************************************************************************)
(* trim_nearby_peaks on Peak Sets of two clusters, one of which may lie    *)
(* inside the bounding slice of the other.                                 *)
(***************************************************************************)
\* a field that holds g[k] on every voxel of cluster k and 1 elsewhere
ClusterField(cl, g) ==
    [c \in Cells(SparseShape) |->
        IF \E k \in 1..Len(cl) : c \in cl[k]
        THEN g[CHOOSE k \in 1..Len(cl) : c \in cl[k]]
        ELSE 1]

InitPairs ==
    /\ \E P \in SUBSET Cells(SparseShape) :
          /\ Len(label(P, TRUE)) = 2
          /\ \E g \in [1..2 -> SparseLevels] :
                dt = ClusterField(label(P, TRUE), g) /\ peaks = P
    /\ shape = SparseShape
    /\ src = "caller"
    /\ pc = "idle"
    /\ log = <<>>
    /\ raised = "none"
    /\ InitLocals
    /\ FnOff
    /\ SnowOff

NextPairs == TNP_Call

\* trim_nearby_peaks on every Peak Set of two clusters
SpecPairs == InitPairs /\ [][NextPairs]_vars

\* the clusters that a trim_nearby_peaks call, entered in log at k, put in
\* its removal set
Removed(k) ==
    LET cl == label(log[k].before, TRUE)
    IN DropPeaks(Crds(cl), log[k].arg, dt)

\* C24: trim_nearby_peaks clears the voxels of the clusters in the removal
\* set only: every voxel of a cluster that is not in the removal set is
\* still true in the output, also when it lies inside the bounding slice
\* of a removed cluster.
C24_OnlyRemovedCleared ==
    \A k \in Calls("trim_nearby_peaks") :
        LET cl == label(log[k].before, TRUE)
        IN \A n \in (1..Len(cl)) \ Removed(k) : cl[n] \subseteq log[k].after

\* clusters p and q of a trim_nearby_peaks call are each other's nearest
\* neighbour, hold the same distance-to-solid, and are closer to each other
\* than to the solid
TiedPair(crds, nn, p, q) ==
    /\ p # q /\ nn[p] = q /\ nn[q] = p
    /\ dt[crds[p]] = dt[crds[q]]
    /\ Dist2(crds[p], crds[q]) < dt[crds[p]]

\* C25: of two mutually nearest clusters with the same distance-to-solid
\* that are closer to each other than to the solid, trim_nearby_peaks
\* removes exactly one and the other survives (either of the two).
C25_TieRemovesOne ==
    \A k \in Calls("trim_nearby_peaks") :
        LET cl == label(log[k].before, TRUE)
        IN \A p, q \in 1..Len(cl) :
              TiedPair(Crds(cl), log[k].arg, p, q)
                 => \/ cl[p] \subseteq log[k].after /\ cl[q] \cap log[k].after = {}
                    \/ cl[q] \subseteq log[k].after /\ cl[p] \cap log[k].after = {}

\* the cluster being handled, as the loop first sees it
ClusterInSlice == clusters[i] \cap SliceCells(CurSlice)

\* the working set after n passes: the cluster dilated n times
RECURSIVE WorkingSet(_)
WorkingSet(n) ==
    IF n = 0 THEN ClusterInSlice
    ELSE binary_dilation(WorkingSet(n - 1), CurSlice)

\* the candidate peak set of the pass that has just run
Candidates == PeaksExtended(peaks_dil, dt, CurSlice)

\* a pass of the while loop has just run
AfterPass == pc \in {"while", "break_peak", "break_saddle"} /\ iters >= 1

\* C26 as stated: each pass compares the candidate peak set with the
\* working set as it was before that pass's dilation (the dilated set of
\* the pass before): the cluster is declared genuine when the two are
\* equal, a saddle when they do not overlap, and the loop goes on otherwise.
C26_ComparedWithWorkingSet ==
    AfterPass
        => LET before == WorkingSet(iters - 1)
           IN /\ peaks_dil = WorkingSet(iters)
              /\ pc = "break_peak" <=> Candidates = before
              /\ pc = "break_saddle"
                    <=> (Candidates # before /\ Candidates \cap before = {})

\* C26 as amended: each pass dilates the dilated set of the pass before and
\* compares the candidate peak set with the cluster as it was labelled,
\* which the loop never changes: the cluster is declared genuine when the
\* two are equal, a saddle when they do not overlap, and the loop goes on
\* otherwise.
C26_ComparedWithCluster ==
    AfterPass
        => /\ peaks_dil = WorkingSet(iters)
           /\ pc = "break_peak" <=> Candidates = ClusterInSlice
           /\ pc = "break_saddle"
                 <=> (Candidates # ClusterInSlice
                        /\ Candidates \cap ClusterInSlice = {})

\* a second pass has run and left the cluster undecided although its
\* candidates are exactly the working set the pass started from
C26_Witness ==
    /\ pc = "while" /\ iters = 2
    /\ Candidates = WorkingSet(1)
    /\ Candidates # ClusterInSlice

\* the clusters of a Peak Set under full connectivity, as a set
FullClusters(P) == LET cl == label(P, TRUE) IN {cl[k] : k \in 1..Len(cl)}

\* C27: trim_saddle_points forms its clusters with full connectivity, as
\* trim_nearby_peaks does: while it runs, its clusters are the fully
\* connected components of the Peak Set it was given (two voxels touching
\* only diagonally share a cluster), and when it has returned each such
\* component is kept whole or dropped whole.
C27_SaddleClustersFull ==
    /\ pc # "idle"
          => {clusters[k] : k \in 1..Len(clusters)} = FullClusters(held.peaks)
    /\ \A k \in Calls("trim_saddle_points") :
          \A C \in FullClusters(log[k].before) :
              C \subseteq log[k].after \/ C \cap log[k].after = {}

\* the stages of snow_partitioning in the order of lines 146-179
StageOrder ==
    <<"boolean_coercion", "distance_transform", "gaussian_filter",
      "find_peaks", "trim_saddle_points", "trim_nearby_peaks", "label",
      "watershed", "randomize_colors">>

StageRank(name) == CHOOSE n \in 1..Len(StageOrder) : StageOrder[n] = name

\* the position snow_partitioning has reached, counted in statements passed
SnowPast(at) ==
    LET order == <<"call", "edt", "smooth", "peaks", "saddle", "nearby",
                   "label", "watershed", "randomize", "return", "done">>
        rank(p) == CHOOSE n \in 1..Len(order) : order[n] = p
    IN spc # "off" /\ rank(spc) > rank(at) /\ (spc = "done" => out.kind = "returned")

\* C28: snow_partitioning runs its stages in the fixed order boolean
\* coercion, distance transform, smoothing, peak detection, saddle trim,
\* nearby merge, labelling, watershed, randomization, each at most once and
\* one after the other; the distance transform is skipped exactly when dt
\* is supplied, smoothing exactly when sigma is 0, randomization exactly
\* when randomize is false, and no other stage is skipped.
C28_StageOrder ==
    /\ \A j, k \in 1..Len(log) :
          j < k => StageRank(log[j].stage) < StageRank(log[k].stage)
    /\ SnowPast("call") => "boolean_coercion" \in Stages
    /\ SnowPast("edt") => ("distance_transform" \in Stages <=> args.dt = None)
    /\ SnowPast("smooth") => ("gaussian_filter" \in Stages <=> args.sigma # 0)
    /\ SnowPast("peaks") => "find_peaks" \in Stages
    /\ SnowPast("saddle") => "trim_saddle_points" \in Stages
    /\ SnowPast("nearby") => "trim_nearby_peaks" \in Stages
    /\ SnowPast("label") => "label" \in Stages
    /\ SnowPast("watershed") => "watershed" \in Stages
    /\ SnowPast("randomize") => ("randomize_colors" \in Stages <=> args.randomize)

\* a call that was given dt and sigma = 0 has returned its randomized regions
C28_Witness ==
    /\ spc = "done" /\ out.kind = "returned"
    /\ args.dt # None /\ args.sigma = 0 /\ args.randomize
    /\ Len(log) = 7

\* the voxels of the bounding box of cluster C, extended by the pad and
\* clipped to the image
ExtendedBox(C) == SliceCells(extend_slice(find_objects(C), shape, PAD))

AllSolid == \A c \in CellsN(args.im.shape) : args.im.val[c] = 0

\* C30: trim_nearby_peaks never returns when its Peak Set has no true
\* voxel: a call of snow_partitioning whose peaks are all gone by line 169
\* (as on an all-solid image with no dt supplied) goes no further, ends in
\* the ValueError raised while stacking the empty list of cluster centres,
\* and returns no region image.
C30_EmptyPeakSetRaises ==
    /\ \A k \in Calls("trim_nearby_peaks") : log[k].before # {}
    /\ (peaks = {} /\ "trim_saddle_points" \in Stages
            /\ "trim_nearby_peaks" \notin Stages /\ spc # "nearby")
          => /\ spc = "done"
             /\ out.kind = "raised" /\ out.error = "ValueError"
             /\ raised = "ValueError"
             /\ regions = None /\ tup.regions = None
    /\ (args.dt = None /\ AllSolid /\ SnowPast("saddle")) => spc = "nearby"

\* snow_partitioning on an all-solid image has ended in the ValueError
C30_Witness ==
    /\ args.dt = None /\ AllSolid
    /\ "trim_saddle_points" \in Stages /\ peaks = {}
    /\ spc = "done" /\ out.kind = "raised" /\ out.error = "ValueError"
====
